---- MODULE Spec2Model ----
(***************************************************************************)
(* A model of the quantitative analysis engine of stock-analysis-ai:       *)
(* the ratio normalizer (analysis_layer.calculate_ratios), the undervalued *)
(* scan (analysis_layer.find_undervalued_stocks), the sentiment endpoint   *)
(* (api.get_sentiment), the direction predictor (api.predict) with its     *)
(* artifact load and feature row (api.calculate_features), the bar source  *)
(* (data_layer.get_stock_data) and the trainer (build_model.prepare_data,  *)
(* build_model.build_model) with the three artifact files it writes.       *)
(*                                                                         *)
(* Numbers.  Python floats are modelled as exact fixed-point numbers, an   *)
(* integer count of hundredths: 25.0 is 2500, 0.15 is 15, 1.0 is 100.      *)
(* The inputs are chosen so that every product and quotient the code       *)
(* takes is exact in hundredths.  NaN and infinities are modelled in the   *)
(* feature columns only, where the code relies on them.                    *)
(***************************************************************************)
EXTENDS Integers, Sequences, FiniteSets, TLC

VARIABLES
    \* ---- calculate_ratios called on its own (SpecRatios)
    ratPc,          \* "call" | "returned" | "raised"
    ratFin,         \* the payload get_financials returned
    ratRec,         \* the record calculate_ratios returned
    \* ---- find_undervalued_stocks (SpecScan)
    scanPc,         \* "scan" | "done" | "raised"
    limit,          \* the limit argument
    idx,            \* number of candidates scanned so far
    r,              \* local r: the ratios of the candidate scanned last
    score,          \* local score of the candidate scanned last
    results,        \* local list results
    ret,            \* the returned list
    allDefaulted,   \* history: every payload so far normalizes to all-0.0 ratios
    \* ---- get_sentiment (SpecSent)
    sentPc,         \* "start" | "done" | "escaped"
    sentimentPipe,  \* module global sentiment_pipe: loaded (TRUE) or None
    symNews,        \* history: what yf.Ticker(symbol).news returned
    proxyAsked,     \* history: yf.Ticker("SPY").news was read
    sentRaised,     \* history: the call that raised, "" when none did
    newsItems,      \* local news_items
    headlines,      \* local headlines
    classified,     \* local results: what sentiment_pipe returned
    response,       \* the returned JSON object
    \* ---- predict (SpecPredict)
    predPc,         \* "boot" | "idle" | "done"
    customModel,    \* module global custom_model: loaded or None
    scaler,         \* module global scaler: loaded or None
    df,             \* the fetched series: its closes
    modelIn,        \* what the model block met: outcome and class-1 probability
    predResp,       \* the returned JSON object, or the HTTP error
    loadedFrom,     \* the training runs the loaded model and scaler come from
    \* ---- build_model and the artifact files (SpecArtifacts)
    trainPc,        \* "off" | "idle" | "fitted" | "modelSaved" | "scalerSaved"
                    \*   | "done" | "failed"
    runNo,          \* number of the training run started last
    store,          \* the files: the run that wrote each one, 0 when absent
    storeAtStart,   \* history: the files when the last run started
    \* ---- get_stock_data (SpecFetch)
    fetchPc,        \* "off" | "call" | "returned" | "raised"
    provided,       \* what ticker.history does: raises, or the frame it returns
    fetched,        \* the frame get_stock_data returned
    \* ---- prepare_data, the split and the scaler fit of build_model (SpecTrain)
    prepPc,         \* "off" | "start" | "prepared" | "split" | "failed"
    hist,           \* the fetched history: its closes and volumes
    xy,             \* X and y of prepare_data: rows of bar index, features, label
    xTrain,         \* X_train with y_train
    xTest,          \* X_test with y_test
    scalerFit,      \* what StandardScaler.fit_transform(X_train) learned
    \* ---- calculate_features and the model input of predict (SpecFeatures)
    featPc,         \* "off" | "start" | "done"
    bars,           \* the series predict fetched: its closes and volumes
    featRow,        \* the row calculate_features returned
    modelRow,       \* the row handed to scaler.transform, after fillna(0)
    \* ---- huggingface_app.calculate_features (SpecParity)
    hfPc,           \* "off" | "start" | "done"
    hfRow           \* the row huggingface_app.calculate_features returned

ratVars  == <<ratPc, ratFin, ratRec>>
scanVars == <<scanPc, limit, idx, r, score, results, ret, allDefaulted>>
sentVars == <<sentPc, sentimentPipe, symNews, proxyAsked, sentRaised, newsItems,
             headlines, classified, response>>
predVars == <<predPc, customModel, scaler, df, modelIn, predResp, loadedFrom>>
artVars  == <<trainPc, runNo, store, storeAtStart>>
fetchVars == <<fetchPc, provided, fetched>>
prepVars == <<prepPc, hist, xy, xTrain, xTest, scalerFit>>
featVars == <<featPc, bars, featRow, modelRow>>
hfVars   == <<hfPc, hfRow>>
vars     == <<ratVars, scanVars, sentVars, predVars, artVars, fetchVars, prepVars, featVars, hfVars>>

Min(a, b) == IF a < b THEN a ELSE b
Max(a, b) == IF a > b THEN a ELSE b

(***************************************************************************)
(* Raw provider values (yfinance's ticker.info).  A key of the mapping is  *)
(* absent, or holds None, a number, or a text that float() cannot parse.   *)
(***************************************************************************)
Absent  == [t |-> "absent", v |-> 0]
None_   == [t |-> "none", v |-> 0]
Text    == [t |-> "text", v |-> 0]
Num(n)  == [t |-> "num", v |-> n]

InfoKeys ==
    {"returnOnEquity", "returnOnAssets", "profitMargins", "grossMargins",
     "currentRatio", "quickRatio", "debtToEquity", "trailingPE",
     "priceToBook", "marketCap"}

\* get_financials: None when the fetch raised, else a dict with an 'info'
\* mapping.  extra: the mapping holds keys other than the ten read here,
\* so it is a non-empty dict even when all ten are absent.
NoData == [avail |-> FALSE, extra |-> FALSE, info |-> [k \in InfoKeys |-> Absent]]
Financials(extra, info) == [avail |-> TRUE, extra |-> extra, info |-> info]

\* Python truthiness of a raw value: None and 0 are falsy.
Truthy(x) == x.t = "text" \/ (x.t = "num" /\ x.v # 0)

\* info.get(key, default)
InfoGet(info, key, default) == IF info[key].t = "absent" THEN Num(default) ELSE info[key]

\* get_val: float(info.get(key, default) or 0.0); float() of a text raises.
get_val(info, key, default) ==
    LET x == InfoGet(info, key, default)
        y == IF Truthy(x) THEN x ELSE Num(0)
    IN  IF y.t = "num" THEN [raised |-> FALSE, v |-> y.v]
        ELSE [raised |-> TRUE, v |-> 0]

\* The key list _empty_ratios iterates.
EmptyKeys ==
    <<"roe", "roa", "net_profit_margin", "gross_profit_margin", "current_ratio",
      "quick_ratio", "cash_ratio", "debt_to_equity", "debt_to_assets",
      "equity_multiplier", "asset_turnover", "inventory_turnover",
      "receivables_turnover", "pe_ratio", "pb_ratio", "market_cap">>

\* Mutant of _empty_ratios: the key list lost its last entry.
empty_ratios_short == [k \in {EmptyKeys[j] : j \in 1..(Len(EmptyKeys) - 1)} |-> 0]

\* _empty_ratios: setattr(r, k, 0.0) for every k of the list.
_empty_ratios == [k \in {EmptyKeys[j] : j \in 1..Len(EmptyKeys)} |-> 0]

\* `not data or not data.get('info')`: no payload, or an empty info dict.
InfoMissing(fin) ==
    \/ ~fin.avail
    \/ (~fin.extra /\ \A k \in InfoKeys : fin.info[k].t = "absent")

\* Mutant of DebtToEquity: the percent form is kept as it is.
DebtToEquityPercent(info) ==
    IF get_val(info, "debtToEquity", 0).v # 0
    THEN get_val(info, "debtToEquity", 0).v ELSE 0

\* get_val('debtToEquity', 0) / 100.0 if get_val('debtToEquity') else 0.0
DebtToEquity(info) ==
    IF get_val(info, "debtToEquity", 0).v # 0
    THEN get_val(info, "debtToEquity", 0).v \div 100 ELSE 0

\* The Ratios(...) constructor call of calculate_ratios.  Every get_val of
\* the call is evaluated; the first that raises aborts the call.
PopulatedRatios(info) ==
    LET g(key, d) == get_val(info, key, d)
        dte == DebtToEquity(info)
    IN  IF \E k \in InfoKeys : g(k, 0).raised
        THEN [raised |-> TRUE, rec |-> _empty_ratios]
        ELSE [raised |-> FALSE, rec |->
              [roe |-> g("returnOnEquity", 0).v * 100,
               roa |-> g("returnOnAssets", 0).v * 100,
               net_profit_margin |-> g("profitMargins", 0).v * 100,
               gross_profit_margin |-> g("grossMargins", 0).v * 100,
               current_ratio |-> g("currentRatio", 0).v,
               quick_ratio |-> g("quickRatio", 0).v,
               cash_ratio |-> 0,
               debt_to_equity |-> dte,
               debt_to_assets |-> 0,
               equity_multiplier |-> 0,
               asset_turnover |-> 0,
               inventory_turnover |-> 0,
               receivables_turnover |-> 0,
               pe_ratio |-> g("trailingPE", 0).v,
               pb_ratio |-> g("priceToBook", 0).v,
               market_cap |-> g("marketCap", 0).v]]

\* calculate_ratios(symbol), given what get_financials(symbol) returned.
calculate_ratios(fin) ==
    IF InfoMissing(fin) THEN [raised |-> FALSE, rec |-> _empty_ratios]
    ELSE PopulatedRatios(fin.info)

(***************************************************************************)
(* SpecRatios: calculate_ratios on any payload with at most MaxPresent     *)
(* keys present.                                                           *)
(***************************************************************************)
MaxPresent == 2

\* Values a present key can hold: None, 0, numbers, an unparsable text.
PresentVals == {None_, Num(0), Num(15), Num(10000), Num(0 - 300), Text}

\* debtToEquity comes in percent form; its values are whole percents, so
\* that the hundredth part is exact: None, 0, 1.0, 100.0, -3.0, a text.
PresentValsOf(k) ==
    IF k = "debtToEquity" THEN (PresentVals \ {Num(15)}) \cup {Num(100)}
    ELSE PresentVals

\* The info mappings with at most n of the ten keys present.
InfoMappings(n) ==
    UNION { { [k \in InfoKeys |-> IF k \in D THEN g[k] ELSE Absent] :
              g \in { h \in [D -> PresentVals \cup {Num(100)}] :
                        \A k \in D : h[k] \in PresentValsOf(k) } } :
            D \in {S \in SUBSET InfoKeys : Cardinality(S) <= n} }

RatioPayloads(n) ==
    {NoData} \cup {Financials(e, m) : e \in BOOLEAN, m \in InfoMappings(n)}

NoRec == [k \in {} |-> 0]

RatInit ==
    /\ ratPc = "call"
    /\ ratFin \in RatioPayloads(MaxPresent)
    /\ ratRec = NoRec

RatIdle ==
    /\ ratPc = "off"
    /\ ratFin = NoData
    /\ ratRec = NoRec

\* analyzer.calculate_ratios(symbol)
CalculateRatios ==
    /\ ratPc = "call"
    /\ LET out == calculate_ratios(ratFin) IN
       IF out.raised
       THEN /\ ratPc' = "raised"
            /\ ratRec' = ratRec
       ELSE /\ ratPc' = "returned"
            /\ ratRec' = out.rec
    /\ UNCHANGED <<ratFin, scanVars, sentVars, predVars, artVars, fetchVars, prepVars, featVars, hfVars>>

(***************************************************************************)
(* SpecScan: find_undervalued_stocks(limit) over a prefix of the           *)
(* candidate list.                                                         *)
(***************************************************************************)
NumCandidates == 3
MaxLimit == 4
MaxNegLimit == 2

\* The head of the hardcoded S&P 100 list.
Universe == <<"AAPL", "MSFT", "GOOGL", "AMZN", "NVDA", "META">>
candidates == SubSeq(Universe, 1, NumCandidates)

Limits == (0 - MaxNegLimit)..MaxLimit

\* Payloads the scan meets: each screened key takes values on both sides
\* of its threshold and on the threshold itself.
ScanInfos ==
    { [k \in InfoKeys |->
          CASE k = "trailingPE"     -> pe
            [] k = "priceToBook"    -> pb
            [] k = "returnOnEquity" -> roe
            [] k = "debtToEquity"   -> dte
            [] OTHER                -> Absent] :
      pe \in {Absent, Num(0 - 500), Num(1000), Num(2500)},
      pb \in {None_, Num(300), Num(500)},
      roe \in {Num(0), Num(15), Num(20)},
      dte \in {Absent, Num(10000)} }

ScanPayloads ==
    {NoData, Financials(FALSE, [k \in InfoKeys |-> Absent]),
     Financials(TRUE, [k \in InfoKeys |-> IF k = "trailingPE" THEN Text ELSE Absent])}
    \cup {Financials(TRUE, m) : m \in ScanInfos}

\* No payload, an empty info mapping, or every field absent, None or zero.
Defaulted(fin) ==
    \/ InfoMissing(fin)
    \/ \A k \in InfoKeys : fin.info[k] \in {Absent, None_, Num(0)}

\* Mutant of ScoreOf: the lower bounds of the P/E and P/B checks are lost.
ScoreNoLowerBound(rec) ==
    LET s1 == IF rec.pe_ratio < 2500 THEN 1 ELSE 0
        s2 == s1 + (IF rec.pb_ratio < 500 THEN 1 ELSE 0)
        s3 == s2 + (IF rec.roe > 1500 THEN 1 ELSE 0)
    IN  s3 + (IF rec.debt_to_equity < 100 THEN 1 ELSE 0)

\* Mutant of ScoreOf: the ROE check is inclusive.
ScoreRoeInclusive(rec) ==
    LET s1 == IF 0 < rec.pe_ratio /\ rec.pe_ratio < 2500 THEN 1 ELSE 0
        s2 == s1 + (IF 0 < rec.pb_ratio /\ rec.pb_ratio < 500 THEN 1 ELSE 0)
        s3 == s2 + (IF rec.roe >= 1500 THEN 1 ELSE 0)
    IN  s3 + (IF rec.debt_to_equity < 100 THEN 1 ELSE 0)

\* score = 0, then the four `if ...: score += 1` statements.
ScoreOf(rec) ==
    LET s1 == IF 0 < rec.pe_ratio /\ rec.pe_ratio < 2500 THEN 1 ELSE 0
        s2 == s1 + (IF 0 < rec.pb_ratio /\ rec.pb_ratio < 500 THEN 1 ELSE 0)
        s3 == s2 + (IF rec.roe > 1500 THEN 1 ELSE 0)
    IN  s3 + (IF rec.debt_to_equity < 100 THEN 1 ELSE 0)

\* The dict appended to results.
Entry(sym, sc, rec) ==
    [symbol |-> sym, score |-> sc, pe_ratio |-> rec.pe_ratio, roe |-> rec.roe]

\* Insert e behind every entry whose score is at least e's.
RECURSIVE InsertDesc(_, _)
InsertDesc(e, s) ==
    IF s = <<>> THEN <<e>>
    ELSE IF Head(s).score >= e.score THEN <<Head(s)>> \o InsertDesc(e, Tail(s))
    ELSE <<e>> \o s

RECURSIVE Reverse(_)
Reverse(s) == IF s = <<>> THEN <<>> ELSE Reverse(Tail(s)) \o <<Head(s)>>

\* Insert e behind every entry whose score is at most e's (ascending, stable).
RECURSIVE InsertAsc(_, _)
InsertAsc(e, s) ==
    IF s = <<>> THEN <<e>>
    ELSE IF Head(s).score <= e.score THEN <<Head(s)>> \o InsertAsc(e, Tail(s))
    ELSE <<e>> \o s

RECURSIVE SortAsc(_)
SortAsc(s) ==
    IF s = <<>> THEN <<>>
    ELSE InsertAsc(s[Len(s)], SortAsc(SubSeq(s, 1, Len(s) - 1)))

\* Mutant of SortByScoreDesc: sort ascending, then reverse the list.
SortAscThenReverse(s) == Reverse(SortAsc(s))

\* results.sort(key=lambda x: x['score'], reverse=True): list.sort is
\* stable, and reverse=True keeps the order of entries with equal keys.
RECURSIVE SortByScoreDesc(_)
SortByScoreDesc(s) ==
    IF s = <<>> THEN <<>>
    ELSE InsertDesc(s[Len(s)], SortByScoreDesc(SubSeq(s, 1, Len(s) - 1)))

\* Mutant of Slice: one entry too many.
SliceOneMore(s, n) ==
    IF n >= 0 THEN SubSeq(s, 1, Min(n + 1, Len(s)))
    ELSE SubSeq(s, 1, Max(Len(s) + n, 0))

\* s[:n]: a negative n counts from the end.
Slice(s, n) ==
    IF n >= 0 THEN SubSeq(s, 1, Min(n, Len(s)))
    ELSE SubSeq(s, 1, Max(Len(s) + n, 0))

ScanInit ==
    /\ scanPc = "scan"
    /\ limit \in Limits
    /\ idx = 0
    /\ r = NoRec
    /\ score = 0
    /\ results = <<>>
    /\ ret = <<>>
    /\ allDefaulted = TRUE

ScanIdle ==
    /\ scanPc = "off"
    /\ limit = 0
    /\ idx = 0
    /\ r = NoRec
    /\ score = 0
    /\ results = <<>>
    /\ ret = <<>>
    /\ allDefaulted = TRUE

\* r = self.calculate_ratios(sym), for every payload get_financials can
\* return.
RatioCalls == {[fin |-> f, out |-> calculate_ratios(f)] : f \in ScanPayloads}

\* One iteration of `for sym in candidates`; an exception of
\* calculate_ratios leaves find_undervalued_stocks.
ScanCandidate ==
    /\ scanPc = "scan"
    /\ idx < Len(candidates)
    /\ \E call \in RatioCalls :
         /\ allDefaulted' = (allDefaulted /\ Defaulted(call.fin))
         /\ IF call.out.raised
            THEN /\ scanPc' = "raised"
                 /\ UNCHANGED <<idx, r, score, results>>
            ELSE /\ scanPc' = "scan"
                 /\ idx' = idx + 1
                 /\ r' = call.out.rec
                 /\ score' = ScoreOf(r')
                 /\ results' = IF score' >= 3
                               THEN Append(results, Entry(candidates[idx + 1], score', r'))
                               ELSE results
    /\ UNCHANGED <<limit, ret, ratVars, sentVars, predVars, artVars, fetchVars, prepVars, featVars, hfVars>>

\* After the loop: results.sort(...); return results[:limit]
SortAndReturn ==
    /\ scanPc = "scan"
    /\ idx = Len(candidates)
    /\ results' = SortByScoreDesc(results)
    /\ ret' = Slice(results', limit)
    /\ scanPc' = "done"
    /\ UNCHANGED <<limit, idx, r, score, allDefaulted, ratVars, sentVars, predVars, artVars, fetchVars, prepVars, featVars, hfVars>>

(***************************************************************************)
(* SpecSent: the /sentiment/{symbol} handler.                              *)
(***************************************************************************)
MaxNews == 6
HeadlineCap == 5
Threshold == 10

\* A news item: where it came from, its place in the feed, and whether
\* item.get('title') or item.get('content', {}).get('title') or
\* item.get('summary') yields a title.
Feeds(src) ==
    UNION { { [j \in 1..n |-> [src |-> src, pos |-> j, titled |-> bits[j]]] :
              bits \in [1..n -> BOOLEAN] } : n \in 0..MaxNews }

\* What the classifier can say of one headline (score in hundredths).
Classes ==
    {[label |-> "positive", score |-> 10], [label |-> "positive", score |-> 90],
     [label |-> "negative", score |-> 10], [label |-> "negative", score |-> 90],
     [label |-> "neutral", score |-> 50]}

\* Mutant of FirstItems: the [:5] slice is lost.
AllItems(items) == items

\* news_items[:5]
FirstItems(items) == SubSeq(items, 1, Min(HeadlineCap, Len(items)))

\* The loop that appends every title found to headlines.
RECURSIVE TitlesOf(_)
TitlesOf(items) ==
    IF items = <<>> THEN <<>>
    ELSE (IF Head(items).titled
          THEN <<[src |-> Head(items).src, pos |-> Head(items).pos]>>
          ELSE <<>>) \o TitlesOf(Tail(items))

ExtractHeadlines(items) == TitlesOf(FirstItems(items))

\* score if label == 'positive' else -score if label == 'negative' else 0
Signed(res) ==
    IF res.label = "positive" THEN res.score
    ELSE IF res.label = "negative" THEN 0 - res.score
    ELSE 0

\* sentiment_score = 0, then sentiment_score += score per headline.
RECURSIVE SentimentScore(_)
SentimentScore(rs) ==
    IF rs = <<>> THEN 0
    ELSE SentimentScore(SubSeq(rs, 1, Len(rs) - 1)) + Signed(rs[Len(rs)])

\* Mutant of Overall: the thresholds are inclusive.
OverallInclusive(agg) ==
    IF agg >= Threshold THEN "Positive"
    ELSE IF agg <= 0 - Threshold THEN "Negative"
    ELSE "Neutral"

\* "Positive" if sentiment_score > 0.1 else "Negative" if
\* sentiment_score < -0.1 else "Neutral"
Overall(agg) ==
    IF agg > Threshold THEN "Positive"
    ELSE IF agg < 0 - Threshold THEN "Negative"
    ELSE "Neutral"

AnalyzedNews(hs, rs) ==
    [j \in 1..Len(hs) |-> [title |-> hs[j], label |-> rs[j].label, score |-> rs[j].score]]

\* The JSON objects get_sentiment returns.  overall is "" and scored is
\* FALSE when the object has no such key.
ErrorResponse(msg) ==
    [error |-> msg, overall |-> "", scored |-> FALSE, sentiment_score |-> 0, news |-> <<>>]
NeutralResponse ==
    [error |-> "", overall |-> "Neutral", scored |-> FALSE, sentiment_score |-> 0, news |-> <<>>]
AnalyzedResponse(hs, rs) ==
    [error |-> "", overall |-> Overall(SentimentScore(rs)), scored |-> TRUE,
     sentiment_score |-> SentimentScore(rs), news |-> AnalyzedNews(hs, rs)]
NoResponse ==
    [error |-> "", overall |-> "", scored |-> FALSE, sentiment_score |-> 0, news |-> <<>>]

\* Mutant of FallBack: the proxy is asked when no title can be extracted.
FallBackOnNoTitle(items) == ExtractHeadlines(items) = <<>>

\* `if not news_items:` the feed is None or empty.
FallBack(items) == items = <<>>

\* Mutant of ExceptionExit: the handler has no except clause.
ExceptionEscapes == "escaped"

\* `except Exception as e: return {"symbol": symbol, "error": str(e)}`
ExceptionExit == "done"

SentInit ==
    /\ sentPc = "start"
    /\ sentimentPipe \in BOOLEAN
    /\ symNews = <<>>
    /\ proxyAsked = FALSE
    /\ sentRaised = ""
    /\ newsItems = <<>>
    /\ headlines = <<>>
    /\ classified = <<>>
    /\ response = NoResponse

SentIdle ==
    /\ sentPc = "off"
    /\ sentimentPipe = FALSE
    /\ symNews = <<>>
    /\ proxyAsked = FALSE
    /\ sentRaised = ""
    /\ newsItems = <<>>
    /\ headlines = <<>>
    /\ classified = <<>>
    /\ response = NoResponse

\* The handler from step 2 on: extract the headlines of the feed in use,
\* classify them, aggregate, return.
Analyze(items) ==
    LET hs == ExtractHeadlines(items) IN
    /\ newsItems' = items
    /\ headlines' = hs
    /\ IF hs = <<>>
       THEN /\ classified' = <<>>
            /\ sentRaised' = ""
            /\ sentPc' = "done"
            /\ response' = NeutralResponse
       ELSE \/ /\ classified' = <<>>
               /\ sentRaised' = "pipeline"
               /\ sentPc' = ExceptionExit
               /\ response' = ErrorResponse("pipeline")
            \/ \E rs \in [1..Len(hs) -> Classes] :
                 /\ classified' = rs
                 /\ sentRaised' = ""
                 /\ sentPc' = "done"
                 /\ response' = AnalyzedResponse(hs, rs)

\* get_sentiment(symbol), with what the provider and the classifier answer.
GetSentiment ==
    /\ sentPc = "start"
    /\ \/ /\ ~sentimentPipe
          /\ sentPc' = "done"
          /\ response' = ErrorResponse("Sentiment model not loaded.")
          /\ UNCHANGED <<symNews, proxyAsked, sentRaised, newsItems, headlines, classified>>
       \/ /\ sentimentPipe
          /\ sentRaised' = "news"
          /\ sentPc' = ExceptionExit
          /\ response' = ErrorResponse("news")
          /\ UNCHANGED <<symNews, proxyAsked, newsItems, headlines, classified>>
       \/ /\ sentimentPipe
          /\ \E feed \in Feeds("SYM") :
               /\ symNews' = feed
               /\ IF FallBack(feed)
                  THEN /\ proxyAsked' = TRUE
                       /\ \/ /\ sentRaised' = "proxy"
                             /\ sentPc' = ExceptionExit
                             /\ response' = ErrorResponse("proxy")
                             /\ UNCHANGED <<newsItems, headlines, classified>>
                          \/ \E pfeed \in Feeds("SPY") :
                               IF pfeed = <<>>
                               THEN /\ sentPc' = "done"
                                    /\ response' = NeutralResponse
                                    /\ newsItems' = pfeed
                                    /\ UNCHANGED <<sentRaised, headlines, classified>>
                               ELSE Analyze(pfeed)
                  ELSE /\ proxyAsked' = FALSE
                       /\ Analyze(feed)
    /\ UNCHANGED <<sentimentPipe, ratVars, scanVars, predVars, artVars, fetchVars, prepVars, featVars, hfVars>>

(***************************************************************************)
(* SpecPredict: artifact loading at process start and the                  *)
(* /predict/{symbol} handler.                                              *)
(***************************************************************************)
MaxBars == 62
ModelMinBars == 60
SmaWindow == 20

\* Closes in hundredths; their differences are multiples of SmaWindow, so
\* the 20-bar mean is exact.
Prices == {9980, 10000, 10020}

\* A series of n bars: every close is base but the last.
Series(n, base, last) == [j \in 1..n |-> IF j = n THEN last ELSE base]

RECURSIVE SumSeq(_)
SumSeq(s) == IF s = <<>> THEN 0 ELSE Head(s) + SumSeq(Tail(s))

\* df['Close'].rolling(20).mean().iloc[-1], for a series of 20 bars or more
RollingMeanLast(closes) ==
    SumSeq(SubSeq(closes, Len(closes) - SmaWindow + 1, Len(closes))) \div SmaWindow

\* sma20 = rolling mean if len(df) > 20 else last_close
Sma20(closes) ==
    IF Len(closes) > SmaWindow THEN RollingMeanLast(closes) ELSE closes[Len(closes)]

\* "UP" if last_close > sma20 else "DOWN"
Baseline(closes) == IF closes[Len(closes)] > Sma20(closes) THEN "UP" ELSE "DOWN"

\* Mutant of EnoughBars: the comparison is inclusive.
EnoughBarsInclusive(n) == n >= ModelMinBars

\* `if not df.empty and len(df) > 60:`
EnoughBars(n) == n > ModelMinBars

\* Class-1 probabilities predict_proba can return, in hundredths.
Probs == {0, 49, 50, 51, 100}

\* What the model block can meet once it has enough bars: calculate_features
\* returns an empty frame (its except branch), scaler.transform or
\* predict_proba raises (an infinite Vol_Change after a zero-volume bar is
\* rejected by the scaler), or predict_proba answers p.
ModelOutcomes ==
    {[outcome |-> "nofeatures", p |-> 0], [outcome |-> "raised", p |-> 0]}
    \cup {[outcome |-> "prob", p |-> q] : q \in Probs}

NotReached == [outcome |-> "none", p |-> 0]

Sentinel == [prediction |-> "Insufficient Data", confidence |-> 0]

\* Mutant of CustomCall: the confidence is always the class-1 probability.
CustomCallClassOne(p) ==
    [prediction |-> IF p > 50 THEN "UP" ELSE "DOWN", confidence |-> p]

\* custom_pred / custom_conf from prob = predict_proba(...)[0]
CustomCall(p) ==
    LET pred == IF p > 50 THEN "UP" ELSE "DOWN" IN
    [prediction |-> pred, confidence |-> IF pred = "UP" THEN p ELSE 100 - p]

\* The custom_model block of predict: custom_pred and custom_conf.
CustomModel(loaded, n, m) ==
    IF loaded /\ EnoughBars(n) /\ m.outcome = "prob" THEN CustomCall(m.p) ELSE Sentinel

NotFound ==
    [status |-> 404, prediction |-> "", current_price |-> 0, sma_20 |-> 0,
     custom_model |-> [prediction |-> "", confidence |-> 0]]

\* No artifact loaded: custom_model = None, scaler = None.
NotLoaded == [model |-> 0, scaler |-> 0]

PredInit ==
    /\ predPc = "boot"
    /\ customModel = FALSE
    /\ scaler = FALSE
    /\ df = <<>>
    /\ modelIn = NotReached
    /\ predResp = NotFound
    /\ loadedFrom = NotLoaded

PredIdle ==
    /\ predPc = "off"
    /\ customModel = FALSE
    /\ scaler = FALSE
    /\ df = <<>>
    /\ modelIn = NotReached
    /\ predResp = NotFound
    /\ loadedFrom = NotLoaded

\* The artifact files adaboost_model.joblib, scaler.joblib and
\* model_metadata.json, none of them present.
EmptyStore == [model |-> 0, scaler |-> 0, meta |-> 0]

\* The files a predictor can find at its start when no training runs next
\* to it: each one present or not.
DeployedStores == [model : {0, 1}, scaler : {0, 1}, meta : {0, 1}]

ArtIdle ==
    /\ trainPc = "off"
    /\ runNo = 0
    /\ store = EmptyStore
    /\ storeAtStart = EmptyStore

ArtDeployed ==
    /\ trainPc = "off"
    /\ runNo = 0
    /\ store \in DeployedStores
    /\ storeAtStart = EmptyStore

\* Mutant of LoadedPair: the except clause resets the scaler only.
LoadedPairKeepModel(modelOk, scalerOk) ==
    [model |-> modelOk, scaler |-> modelOk /\ scalerOk]

\* try: custom_model = joblib.load(..); scaler = joblib.load(..)
\* except: custom_model = None; scaler = None
LoadedPair(modelOk, scalerOk) ==
    IF ~modelOk THEN [model |-> FALSE, scaler |-> FALSE]
    ELSE IF ~scalerOk THEN [model |-> FALSE, scaler |-> FALSE]
    ELSE [model |-> TRUE, scaler |-> TRUE]

\* Module start: both joblib.load calls in one try; a load succeeds when
\* the file exists and can be read.
LoadArtifacts ==
    /\ predPc = "boot"
    /\ \E modelReads \in BOOLEAN, scalerReads \in BOOLEAN :
         LET pair == LoadedPair(store.model # 0 /\ modelReads,
                                store.scaler # 0 /\ scalerReads)
         IN  /\ customModel' = pair.model
             /\ scaler' = pair.scaler
             /\ loadedFrom' = [model  |-> IF pair.model THEN store.model ELSE 0,
                               scaler |-> IF pair.scaler THEN store.scaler ELSE 0]
    /\ predPc' = "idle"
    /\ UNCHANGED <<df, modelIn, predResp, ratVars, scanVars, sentVars, artVars, fetchVars, prepVars, featVars, hfVars>>

\* predict(symbol), with a series of one of the given lengths returned by
\* get_stock_data.
PredictOn(lengths) ==
    /\ predPc = "idle"
    /\ \E n \in lengths, base \in Prices, last \in Prices :
         LET closes == Series(n, base, last)
             loaded == customModel /\ scaler
         IN  /\ df' = closes
             /\ IF n = 0
                THEN /\ modelIn' = NotReached
                     /\ predResp' = NotFound
                ELSE \E m \in (IF loaded /\ EnoughBars(n)
                               THEN ModelOutcomes ELSE {NotReached}) :
                       /\ modelIn' = m
                       /\ predResp' =
                            [status |-> 200,
                             prediction |-> Baseline(closes),
                             current_price |-> closes[n],
                             sma_20 |-> Sma20(closes),
                             custom_model |-> CustomModel(loaded, n, m)]
    /\ predPc' = "done"
    /\ UNCHANGED <<customModel, scaler, loadedFrom, ratVars, scanVars, sentVars, artVars, fetchVars, prepVars, featVars, hfVars>>

Predict == PredictOn(0..MaxBars)

(***************************************************************************)
(* build_model.build_model and the artifact files.  A training run is one  *)
(* process: it prepares and fits in memory, then writes the three files    *)
(* one after the other.  A predictor process may start between any two     *)
(* of its writes.  A write that raises is taken to leave its file as it    *)
(* was.                                                                    *)
(***************************************************************************)
MaxRuns == 2

TrainInit ==
    /\ trainPc = "idle"
    /\ runNo = 0
    /\ store = EmptyStore
    /\ storeAtStart = EmptyStore

\* How lines 59-80 end: prepare_data raises on an empty series, a later step
\* raises, or the model is fitted and evaluated.
FitOutcomes == {"empty", "raised", "fitted"}

\* build_model up to the saving: prepare_data, split, scale, fit, evaluate.
\* Any exception is caught by the except at the end of build_model.
TrainAndFit ==
    /\ trainPc \in {"idle", "done", "failed"}
    /\ runNo < MaxRuns
    /\ runNo' = runNo + 1
    /\ storeAtStart' = store
    /\ \E o \in FitOutcomes :
         trainPc' = IF o = "fitted" THEN "fitted" ELSE "failed"
    /\ UNCHANGED <<store, ratVars, scanVars, sentVars, predVars, fetchVars, prepVars, featVars, hfVars>>

\* joblib.dump(model, 'adaboost_model.joblib')
SaveModel ==
    /\ trainPc = "fitted"
    /\ \E written \in BOOLEAN :
         IF written
         THEN /\ store' = [store EXCEPT !.model = runNo]
              /\ trainPc' = "modelSaved"
         ELSE /\ store' = store
              /\ trainPc' = "failed"
    /\ UNCHANGED <<runNo, storeAtStart, ratVars, scanVars, sentVars, predVars, fetchVars, prepVars, featVars, hfVars>>

\* joblib.dump(scaler, 'scaler.joblib')
SaveScaler ==
    /\ trainPc = "modelSaved"
    /\ \E written \in BOOLEAN :
         IF written
         THEN /\ store' = [store EXCEPT !.scaler = runNo]
              /\ trainPc' = "scalerSaved"
         ELSE /\ store' = store
              /\ trainPc' = "failed"
    /\ UNCHANGED <<runNo, storeAtStart, ratVars, scanVars, sentVars, predVars, fetchVars, prepVars, featVars, hfVars>>

\* json.dump(metadata) into model_metadata.json
SaveMetadata ==
    /\ trainPc = "scalerSaved"
    /\ \E written \in BOOLEAN :
         IF written
         THEN /\ store' = [store EXCEPT !.meta = runNo]
              /\ trainPc' = "done"
         ELSE /\ store' = store
              /\ trainPc' = "failed"
    /\ UNCHANGED <<runNo, storeAtStart, ratVars, scanVars, sentVars, predVars, fetchVars, prepVars, featVars, hfVars>>

\* The series lengths the predictor is asked about next to training runs:
\* no bars, the longest series without a model call, a series with one.
ProbeLengths == {0, ModelMinBars, MaxBars}

PredictProbe == PredictOn(ProbeLengths)

\* The predictor process is started again: the module globals are gone.
StartPredictor ==
    /\ predPc \in {"idle", "done"}
    /\ predPc' = "boot"
    /\ customModel' = FALSE
    /\ scaler' = FALSE
    /\ df' = <<>>
    /\ modelIn' = NotReached
    /\ predResp' = NotFound
    /\ loadedFrom' = NotLoaded
    /\ UNCHANGED <<ratVars, scanVars, sentVars, artVars, fetchVars, prepVars, featVars, hfVars>>

(***************************************************************************)
(* data_layer.BISTDataManager.get_stock_data.  A frame is its set of       *)
(* columns and its rows; of a row only the columns holding NaN matter.     *)
(***************************************************************************)
MaxRows == 2

required_cols == {"Open", "High", "Low", "Close", "Volume"}

\* The columns ticker.history may deliver.
HistoryCols == required_cols \cup {"Dividends"}

\* pd.DataFrame()
EmptyFrame == [cols |-> {}, rows |-> <<>>]

\* The rows of a frame with the given columns: at most one NaN cell a row.
RowsOver(cols) == {{}} \cup {{c} : c \in cols}

\* What ticker.history(period) may do: raise (network failure, unknown
\* symbol) or return a frame of up to n rows.
ProviderOutcomes(n) ==
    {[raises |-> TRUE, frame |-> EmptyFrame]}
    \cup UNION { UNION { { [raises |-> FALSE, frame |-> [cols |-> cols, rows |-> rows]] :
                           rows \in [1..k -> RowsOver(cols)] } :
                         k \in 0..n } :
                 cols \in SUBSET HistoryCols }

\* DataFrame.empty: an axis of length 0.
IsEmpty(frame) == frame.cols = {} \/ frame.rows = <<>>

\* all(col in history.columns for col in required_cols)
HasRequired(frame) == \A col \in required_cols : col \in frame.cols

\* The body of get_stock_data; every exception is caught and answered with
\* the empty frame.
get_stock_data(p) ==
    IF p.raises THEN EmptyFrame
    ELSE IF IsEmpty(p.frame) THEN EmptyFrame
    ELSE IF ~HasRequired(p.frame) THEN EmptyFrame
    ELSE p.frame

FetchInit ==
    /\ fetchPc = "call"
    /\ provided \in ProviderOutcomes(MaxRows)
    /\ fetched = EmptyFrame

FetchIdle ==
    /\ fetchPc = "off"
    /\ provided = [raises |-> TRUE, frame |-> EmptyFrame]
    /\ fetched = EmptyFrame

GetStockData ==
    /\ fetchPc = "call"
    /\ fetched' = get_stock_data(provided)
    /\ fetchPc' = "returned"
    /\ UNCHANGED <<provided, ratVars, scanVars, sentVars, predVars, artVars, prepVars, featVars, hfVars>>

(***************************************************************************)
(* Feature engineering.  A cell of a feature column is a number, NaN or an *)
(* infinity.  Returns, Dist_SMA_20, Dist_SMA_50 and Vol_Change are counted *)
(* in ten-thousandths (0.002 is 20), RSI in hundredths (100.0 is 10000);   *)
(* a quotient is taken exactly and rounded down to that grid.  Rows are    *)
(* numbered from 1.                                                        *)
(***************************************************************************)
NaN == [k |-> "nan", v |-> 0]
Cell(x) == [k |-> "num", v |-> x]
Infinite(sign) == [k |-> IF sign > 0 THEN "inf" ELSE "-inf", v |-> 0]

\* Float division a / b, in ten-thousandths.
Quotient(a, b) ==
    IF b = 0 THEN (IF a = 0 THEN NaN ELSE Infinite(a))
    ELSE Cell((a * 10000) \div b)

\* Series.pct_change() at row t
pct_change(s, t) == IF t = 1 THEN NaN ELSE Quotient(s[t] - s[t - 1], s[t - 1])

\* s[lo] + ... + s[hi], by halving
RECURSIVE SumRange(_, _, _)
SumRange(s, lo, hi) ==
    IF lo > hi THEN 0
    ELSE IF lo = hi THEN s[lo]
    ELSE LET mid == (lo + hi) \div 2
         IN  SumRange(s, lo, mid) + SumRange(s, mid + 1, hi)

\* The sum under Series.rolling(w) at row t >= w
RollingSum(s, w, t) == SumRange(s, t - w + 1, t)

\* (Close - SMA_w) / SMA_w at row t, with SMA_w = rolling(w).mean()
Dist_SMA(closes, w, t) ==
    IF t < w THEN NaN
    ELSE LET total == RollingSum(closes, w, t)
         IN  Quotient(w * closes[t] - total, total)

\* delta.where(delta > 0, 0): the first delta is NaN and becomes 0
GainSeq(closes) ==
    [j \in 1..Len(closes) |->
       IF j > 1 /\ closes[j] - closes[j - 1] > 0 THEN closes[j] - closes[j - 1] ELSE 0]

\* -delta.where(delta < 0, 0)
LossSeq(closes) ==
    [j \in 1..Len(closes) |->
       IF j > 1 /\ closes[j] - closes[j - 1] < 0 THEN closes[j - 1] - closes[j] ELSE 0]

RsiWindow == 14
Sma50Window == 50

\* build_model.calculate_rsi at row t: rs = gain / loss of the two rolling
\* means, then 100 - 100 / (1 + rs); a zero loss gives rs = inf and RSI 100,
\* or rs = NaN when the gain is zero too.
calculate_rsi(closes, t) ==
    IF t < RsiWindow THEN NaN
    ELSE LET gain == RollingSum(GainSeq(closes), RsiWindow, t)
             loss == RollingSum(LossSeq(closes), RsiWindow, t)
         IN  IF loss = 0
             THEN (IF gain = 0 THEN NaN ELSE Cell(10000))
             ELSE Cell(10000 - (10000 * loss) \div (loss + gain))

\* (Close.shift(-1) > Close).astype(int): on the last row the shifted close
\* is NaN, the comparison is False and the label 0.
Target(closes, t) == IF t < Len(closes) /\ closes[t + 1] > closes[t] THEN 1 ELSE 0

features == {"Returns", "Dist_SMA_20", "Dist_SMA_50", "RSI", "Vol_Change"}

\* The feature columns prepare_data adds, at row t.
TrainingFeatures(closes, volumes, t) ==
    [Returns     |-> pct_change(closes, t),
     Dist_SMA_20 |-> Dist_SMA(closes, SmaWindow, t),
     Dist_SMA_50 |-> Dist_SMA(closes, Sma50Window, t),
     RSI         |-> calculate_rsi(closes, t),
     Vol_Change  |-> pct_change(volumes, t)]

\* df.dropna() keeps a row when none of its cells is NaN (SMA_20 and SMA_50
\* are NaN exactly when Dist_SMA_20 and Dist_SMA_50 are; Target never is).
KeptByDropna(x) == \A f \in features : x[f].k # "nan"

\* X and y of prepare_data for a non-empty history: the rows dropna keeps,
\* in the order of the history.
prepare_data(h) ==
    LET table == [t \in 1..Len(h.closes) |->
                    [t |-> t, x |-> TrainingFeatures(h.closes, h.volumes, t),
                     y |-> Target(h.closes, t)]]
        kept == {t \in 1..Len(h.closes) : KeptByDropna(table[t].x)}
    IN  [i \in 1..Cardinality(kept) |->
           table[CHOOSE t \in kept : Cardinality({u \in kept : u < t}) = i - 1]]

MaxTrainBars == 58

\* The histories tried: flat or alternating closes and volumes, the last
\* two closes free.
PatternClose(pat, j) == IF pat = "zigzag" /\ j % 2 = 0 THEN 10020 ELSE 10000
PatternVolume(pat, j) == IF pat = "zigzag" /\ j % 2 = 0 THEN 1100 ELSE 1000
TrainLengths == {0} \cup (Sma50Window - 1)..MaxTrainBars
Histories ==
    { [closes  |-> [j \in 1..n |-> IF j = n THEN b ELSE IF j = n - 1 THEN a
                                   ELSE PatternClose(pat, j)],
       volumes |-> [j \in 1..n |-> PatternVolume(pat, j)]] :
      n \in TrainLengths, pat \in {"flat", "zigzag"}, a \in Prices, b \in Prices }

NoScaler == [n |-> 0, sum |-> [f \in features |-> 0], sq |-> [f \in features |-> 0]]

PrepInit ==
    /\ prepPc = "start"
    /\ hist \in Histories
    /\ xy = <<>>
    /\ xTrain = <<>>
    /\ xTest = <<>>
    /\ scalerFit = NoScaler

PrepIdle ==
    /\ prepPc = "off"
    /\ hist = [closes |-> <<>>, volumes |-> <<>>]
    /\ xy = <<>>
    /\ xTrain = <<>>
    /\ xTest = <<>>
    /\ scalerFit = NoScaler

\* X, y = prepare_data("SPY", period="5y"); an empty history raises
\* ValueError, which build_model catches.
PrepareData ==
    /\ prepPc = "start"
    /\ IF hist.closes = <<>>
       THEN /\ prepPc' = "failed"
            /\ xy' = xy
       ELSE /\ prepPc' = "prepared"
            /\ xy' = prepare_data(hist)
    /\ UNCHANGED <<hist, xTrain, xTest, scalerFit,
                   ratVars, scanVars, sentVars, predVars, artVars, fetchVars, featVars, hfVars>>

\* Mutant of TestCount: the held-out share is rounded down.
TestCountFloor(n) == n \div 5

\* train_test_split(test_size=0.2): n_test = ceil(0.2 * n_samples)
TestCount(n) == (n + 4) \div 5

\* What StandardScaler.fit learns from its rows: the count and, for each
\* feature, the sum and the sum of squares (they fix mean_ and scale_).
StandardScalerFit(rows) ==
    [n   |-> Len(rows),
     sum |-> [f \in features |->
                SumRange([i \in 1..Len(rows) |-> rows[i].x[f].v], 1, Len(rows))],
     sq  |-> [f \in features |->
                SumRange([i \in 1..Len(rows) |-> rows[i].x[f].v * rows[i].x[f].v],
                         1, Len(rows))]]

\* train_test_split(X, y, test_size=0.2, shuffle=False), which raises when
\* the training part would be empty, then scaler.fit_transform(X_train).
SplitAndScale ==
    /\ prepPc = "prepared"
    /\ LET n_test == TestCount(Len(xy))
           n_train == Len(xy) - n_test
       IN  IF n_train = 0
           THEN /\ prepPc' = "failed"
                /\ UNCHANGED <<xTrain, xTest, scalerFit>>
           ELSE /\ prepPc' = "split"
                /\ xTrain' = SubSeq(xy, 1, n_train)
                /\ xTest' = SubSeq(xy, n_train + 1, Len(xy))
                /\ scalerFit' = StandardScalerFit(SubSeq(xy, 1, n_train))
    /\ UNCHANGED <<hist, xy, ratVars, scanVars, sentVars, predVars, artVars, fetchVars, featVars, hfVars>>

(***************************************************************************)
(* api.calculate_features and the model block of api.predict, which calls  *)
(* it on series of more than 60 bars only.                                 *)
(***************************************************************************)
\* Mutant of RsiOf: 100 - 100 / rs.
RsiWithoutOne(gain, loss) ==
    IF loss = 0 /\ gain = 0 THEN NaN
    ELSE IF loss = 0 THEN Cell(10000)
    ELSE IF gain = 0 THEN Infinite(-1)
    ELSE Cell(10000 - (10000 * loss) \div gain)

\* rs = gain / loss; 100 - (100 / (1 + rs)), from the two rolling sums (the
\* quotient of the means is the quotient of the sums).  0 / 0 is NaN and
\* stays NaN; gain / 0 is inf, 100 / (1 + inf) is 0 and the RSI 100;
\* otherwise 100 / (1 + gain / loss) = 100 * loss / (loss + gain).
RsiOf(gain, loss) ==
    IF loss = 0 /\ gain = 0 THEN NaN
    ELSE IF loss = 0 THEN Cell(10000 - 0)
    ELSE Cell(10000 - (10000 * loss) \div (loss + gain))

\* df[[...]].iloc[[-1]]: the feature row of the last bar.
calculate_features(closes, volumes) ==
    LET t == Len(closes) IN
    [Returns     |-> pct_change(closes, t),
     Dist_SMA_20 |-> Dist_SMA(closes, SmaWindow, t),
     Dist_SMA_50 |-> Dist_SMA(closes, Sma50Window, t),
     RSI         |-> IF t < RsiWindow THEN NaN
                     ELSE RsiOf(RollingSum(GainSeq(closes), RsiWindow, t),
                                RollingSum(LossSeq(closes), RsiWindow, t)),
     Vol_Change  |-> pct_change(volumes, t)]

\* features.fillna(0): NaN becomes 0.0, an infinity stays.
fillna(x) == [f \in features |-> IF x[f].k = "nan" THEN Cell(0) ELSE x[f]]

NoRow == [f \in features |-> NaN]

\* The series tried: flat or alternating closes and volumes, the last three
\* closes free.
FeatureBars ==
    { [closes  |-> [j \in 1..n |-> IF j = n THEN c ELSE IF j = n - 1 THEN b
                                   ELSE IF j = n - 2 THEN a
                                   ELSE PatternClose(pat, j)],
       volumes |-> [j \in 1..n |-> PatternVolume(pat, j)]] :
      n \in (ModelMinBars + 1)..MaxBars, pat \in {"flat", "zigzag"},
      a \in Prices, b \in Prices, c \in Prices }

FeatInit ==
    /\ featPc = "start"
    /\ bars \in FeatureBars
    /\ featRow = NoRow
    /\ modelRow = NoRow

FeatIdle ==
    /\ featPc = "off"
    /\ bars = [closes |-> <<>>, volumes |-> <<>>]
    /\ featRow = NoRow
    /\ modelRow = NoRow

\* features = calculate_features(df); features = features.fillna(0);
\* scaler.transform(features)
FeaturesForModel ==
    /\ featPc = "start"
    /\ featRow' = calculate_features(bars.closes, bars.volumes)
    /\ modelRow' = fillna(calculate_features(bars.closes, bars.volumes))
    /\ featPc' = "done"
    /\ UNCHANGED <<bars, ratVars, scanVars, sentVars, predVars, artVars, fetchVars, prepVars, hfVars>>

(***************************************************************************)
(* Training and inference features side by side: prepare_data on a         *)
(* history, and the two calculate_features (api.py, huggingface_app.py)    *)
(* on that history cut after one of its bars.                              *)
(***************************************************************************)
\* The column lists: features of prepare_data, and the selection each
\* calculate_features returns.
train_columns == <<"Returns", "Dist_SMA_20", "Dist_SMA_50", "RSI", "Vol_Change">>
api_columns == <<"Returns", "Dist_SMA_20", "Dist_SMA_50", "RSI", "Vol_Change">>
hf_columns == <<"Returns", "Dist_SMA_20", "Dist_SMA_50", "RSI", "Vol_Change">>

\* Mutant of hf_calculate_features: Dist_SMA_50 is taken over 20 bars.
hf_features_short_sma(closes, volumes) ==
    [calculate_features(closes, volumes) EXCEPT
       !.Dist_SMA_50 = Dist_SMA(closes, SmaWindow, Len(closes))]

\* huggingface_app.calculate_features: the feature row of the last bar.
hf_calculate_features(closes, volumes) ==
    LET t == Len(closes)
        gain == RollingSum(GainSeq(closes), RsiWindow, t)
        loss == RollingSum(LossSeq(closes), RsiWindow, t)
    IN  [Returns     |-> pct_change(closes, t),
         Dist_SMA_20 |-> Dist_SMA(closes, SmaWindow, t),
         Dist_SMA_50 |-> Dist_SMA(closes, Sma50Window, t),
         RSI         |-> IF t < RsiWindow \/ (loss = 0 /\ gain = 0) THEN NaN
                         ELSE IF loss = 0 THEN Cell(10000)
                         ELSE Cell(10000 - (10000 * loss) \div (loss + gain)),
         Vol_Change  |-> pct_change(volumes, t)]

\* The history cut after bar t.
Truncated(h, t) == [closes |-> SubSeq(h.closes, 1, t), volumes |-> SubSeq(h.volumes, 1, t)]

HfIdle ==
    /\ hfPc = "off"
    /\ hfRow = NoRow

\* A history for prepare_data and, for the two calculate_features, the same
\* history cut after a bar from the 49th on.
ParityInit ==
    /\ PrepInit
    /\ featPc = "start"
    /\ bars \in {Truncated(hist, t) : t \in (Sma50Window - 1)..Len(hist.closes)}
    /\ featRow = NoRow
    /\ modelRow = NoRow
    /\ hfPc = "start"
    /\ hfRow = NoRow

\* api.calculate_features(df)
ApiCalculateFeatures ==
    /\ featPc = "start"
    /\ featRow' = calculate_features(bars.closes, bars.volumes)
    /\ featPc' = "done"
    /\ UNCHANGED <<bars, modelRow, hfVars,
                   ratVars, scanVars, sentVars, predVars, artVars, fetchVars, prepVars>>

\* huggingface_app.calculate_features(df)
HfCalculateFeatures ==
    /\ hfPc = "start"
    /\ hfRow' = hf_calculate_features(bars.closes, bars.volumes)
    /\ hfPc' = "done"
    /\ UNCHANGED <<featVars,
                   ratVars, scanVars, sentVars, predVars, artVars, fetchVars, prepVars>>

(***************************************************************************)
(* The specifications.                                                     *)
(***************************************************************************)
RatNext == CalculateRatios
InitRatios == RatInit /\ ScanIdle /\ SentIdle /\ PredIdle /\ ArtIdle /\ FetchIdle /\ PrepIdle /\ FeatIdle /\ HfIdle
SpecRatios == InitRatios /\ [][RatNext]_vars

ScanNext == ScanCandidate \/ SortAndReturn
InitScan == ScanInit /\ RatIdle /\ SentIdle /\ PredIdle /\ ArtIdle /\ FetchIdle /\ PrepIdle /\ FeatIdle /\ HfIdle
SpecScan == InitScan /\ [][ScanNext]_vars

SentNext == GetSentiment
InitSent == SentInit /\ RatIdle /\ ScanIdle /\ PredIdle /\ ArtIdle /\ FetchIdle /\ PrepIdle /\ FeatIdle /\ HfIdle
SpecSent == InitSent /\ [][SentNext]_vars

PredNext == LoadArtifacts \/ Predict
InitPredict == PredInit /\ RatIdle /\ ScanIdle /\ SentIdle /\ ArtDeployed /\ FetchIdle /\ PrepIdle /\ FeatIdle /\ HfIdle
SpecPredict == InitPredict /\ [][PredNext]_vars

FetchNext == GetStockData
InitFetch == FetchInit /\ RatIdle /\ ScanIdle /\ SentIdle /\ PredIdle /\ ArtIdle /\ PrepIdle /\ FeatIdle /\ HfIdle
SpecFetch == InitFetch /\ [][FetchNext]_vars

TrainNext == PrepareData \/ SplitAndScale
InitTrain == PrepInit /\ RatIdle /\ ScanIdle /\ SentIdle /\ PredIdle /\ ArtIdle /\ FetchIdle /\ FeatIdle /\ HfIdle
SpecTrain == InitTrain /\ [][TrainNext]_vars

FeatNext == FeaturesForModel
InitFeatures ==
    FeatInit /\ RatIdle /\ ScanIdle /\ SentIdle /\ PredIdle /\ ArtIdle /\ FetchIdle /\ PrepIdle /\ HfIdle
SpecFeatures == InitFeatures /\ [][FeatNext]_vars

ParityNext == PrepareData \/ ApiCalculateFeatures \/ HfCalculateFeatures
InitParity ==
    ParityInit /\ RatIdle /\ ScanIdle /\ SentIdle /\ PredIdle /\ ArtIdle /\ FetchIdle
SpecParity == InitParity /\ [][ParityNext]_vars

ArtNext ==
    \/ TrainAndFit \/ SaveModel \/ SaveScaler \/ SaveMetadata
    \/ LoadArtifacts \/ PredictProbe \/ StartPredictor
InitArtifacts == TrainInit /\ PredInit /\ RatIdle /\ ScanIdle /\ SentIdle /\ FetchIdle /\ PrepIdle /\ FeatIdle /\ HfIdle
SpecArtifacts == InitArtifacts /\ [][ArtNext]_vars

(***************************************************************************)
(* The claims.                                                             *)
(***************************************************************************)

\* The four criteria a ratio record satisfies.
CriteriaMet(rec) ==
    {c \in {"pe", "pb", "roe", "dte"} :
        CASE c = "pe"  -> rec.pe_ratio > 0 /\ rec.pe_ratio < 2500
          [] c = "pb"  -> rec.pb_ratio > 0 /\ rec.pb_ratio < 500
          [] c = "roe" -> rec.roe > 1500
          [] c = "dte" -> rec.debt_to_equity < 100}

InResults(sym) == \E j \in 1..Len(results) : results[j].symbol = sym

\* Place of a symbol in the candidate list.
Pos(sym) == CHOOSE j \in 1..Len(candidates) : candidates[j] = sym

\* C1: after each iteration of the scan, the candidate's score is the number
\* of the four criteria its ratios satisfy, and the candidate is in results
\* iff that score is at least 3; every entry of results has score 3 or 4.
C1_ScoreCountsCriteria ==
    /\ idx > 0 =>
         /\ score = Cardinality(CriteriaMet(r))
         /\ InResults(candidates[idx]) <=> score >= 3
    /\ \A j \in 1..Len(results) : results[j].score \in {3, 4}

\* C1 witness: a candidate failing only the debt criterion is kept with score 3.
C1_Witness ==
    /\ scanPc = "scan" /\ idx > 0
    /\ score = 3 /\ r.debt_to_equity >= 100
    /\ InResults(candidates[idx])

\* C2: the returned list is ordered by score descending, and entries of
\* equal score are in scan order.
C2_SortedStable ==
    scanPc = "done" =>
      \A a \in 1..Len(ret), b \in 1..Len(ret) :
         a < b => \/ ret[a].score > ret[b].score
                  \/ /\ ret[a].score = ret[b].score
                     /\ Pos(ret[a].symbol) < Pos(ret[b].symbol)

\* C2 witness: a later candidate of score 4 is returned ahead of two earlier
\* candidates of score 3, which keep their scan order.
C2_Witness ==
    /\ scanPc = "done" /\ Len(ret) >= 3
    /\ ret[1].score = 4 /\ ret[2].score = 3 /\ ret[3].score = 3
    /\ Pos(ret[1].symbol) > Pos(ret[3].symbol)
    /\ Pos(ret[2].symbol) < Pos(ret[3].symbol)

\* C3: for a limit N >= 0 the returned list is the first min(N, k) entries
\* of the score-sorted list of the k qualifying candidates.
C3_Truncation ==
    scanPc = "done" /\ limit >= 0 =>
      /\ Len(ret) = Min(limit, Len(results))
      /\ Len(ret) <= limit
      /\ \A j \in 1..Len(ret) : ret[j] = results[j]
      /\ \A j \in 1..(Len(results) - 1) : results[j].score >= results[j + 1].score

\* C3 witness: a positive limit cuts off a qualifying candidate of lower score.
C3_Witness ==
    /\ scanPc = "done" /\ limit > 0 /\ limit < Len(results)
    /\ Len(ret) = limit
    /\ results[limit].score > results[limit + 1].score

\* C4: when every candidate's payload is missing, empty or all absent, None
\* or zero, the scan does not raise and returns the empty list.
C4_AllDefaultedEmpty ==
    allDefaulted =>
      /\ scanPc # "raised"
      /\ scanPc = "done" => ret = <<>> /\ results = <<>>

\* C4 witness: a whole scan over defaulted payloads, asked for at least one
\* entry.
C4_Witness ==
    /\ scanPc = "done" /\ allDefaulted /\ idx = Len(candidates) /\ limit > 0
    /\ r = _empty_ratios /\ score = 1

\* C5 as claimed: calculate_ratios never raises, whatever the mapping holds.
C5_NeverRaises == ratPc # "raised"

\* The ratio names of the data model, section 3 of the specification.
RatioNames ==
    {"roe", "roa", "net_profit_margin", "gross_profit_margin",
     "current_ratio", "quick_ratio", "cash_ratio",
     "debt_to_equity", "debt_to_assets", "equity_multiplier",
     "asset_turnover", "inventory_turnover", "receivables_turnover",
     "pe_ratio", "pb_ratio", "market_cap"}

\* C6 as claimed: every returned record has exactly 15 keys.
C6_FifteenKeys ==
    ratPc = "returned" => Cardinality(DOMAIN ratRec) = 15

\* C6 as amended: every returned record, from either path, has the same 16
\* keys, each holding a number.
C6_SixteenKeys ==
    ratPc = "returned" =>
      /\ DOMAIN ratRec = RatioNames
      /\ Cardinality(DOMAIN ratRec) = 16
      /\ \A k \in DOMAIN ratRec : ratRec[k] \in Int

\* C6 witness: a record built from a populated mapping.
C6_Witness ==
    /\ ratPc = "returned" /\ ~InfoMissing(ratFin)
    /\ ratRec.roe = 1500 /\ ratRec.debt_to_equity = 100

\* Sum of the scores of the results labelled lab.
RECURSIVE TotalOf(_, _)
TotalOf(rs, lab) ==
    IF rs = <<>> THEN 0
    ELSE (IF Head(rs).label = lab THEN Head(rs).score ELSE 0) + TotalOf(Tail(rs), lab)

\* C7: the aggregate is the sum of the positive scores minus the sum of the
\* negative scores, undivided; the label is Positive iff it is above 0.1,
\* Negative iff below -0.1, Neutral otherwise (0.1 and -0.1 included).
C7_Aggregate ==
    sentPc = "done" /\ response.scored =>
      /\ response.sentiment_score =
           TotalOf(classified, "positive") - TotalOf(classified, "negative")
      /\ response.overall = "Positive" <=> response.sentiment_score > 10
      /\ response.overall = "Negative" <=> response.sentiment_score < 0 - 10
      /\ response.overall = "Neutral" <=>
           (response.sentiment_score >= 0 - 10 /\ response.sentiment_score <= 10)

\* C7 witness: positive 0.9, negative 0.9, neutral 0.5 aggregate to 0.0, Neutral.
C7_Witness ==
    /\ sentPc = "done" /\ response.scored
    /\ classified = <<[label |-> "positive", score |-> 90],
                      [label |-> "negative", score |-> 90],
                      [label |-> "neutral", score |-> 50]>>
    /\ response.sentiment_score = 0 /\ response.overall = "Neutral"

\* C8 as claimed, for the calls that return a label: the proxy is asked
\* exactly when the symbol yields no headline, at most 5 headlines are
\* classified, and no headline at all gives Neutral with an empty list.
C8_FallbackOnNoHeadline ==
    sentPc = "done" /\ response.error = "" =>
      /\ ExtractHeadlines(symNews) = <<>> <=> proxyAsked
      /\ Len(headlines) <= 5
      /\ headlines = <<>> => response.overall = "Neutral" /\ response.news = <<>>

\* C8 as amended: the proxy is asked exactly when the classifier is loaded
\* and the symbol's feed was fetched and is empty; the headlines classified
\* are the titles found in the first 5 items of the feed in use; without a
\* headline and without an exception the result is Neutral with no news.
C8_FallbackOnEmptyFeed ==
    sentPc = "done" =>
      /\ proxyAsked <=> (sentimentPipe /\ sentRaised # "news" /\ symNews = <<>>)
      /\ Len(headlines) <= 5 /\ Len(classified) <= 5
      /\ \A j \in 1..Len(headlines) :
           /\ headlines[j].src = (IF symNews = <<>> THEN "SPY" ELSE "SYM")
           /\ headlines[j].pos <= 5
           /\ newsItems[headlines[j].pos].titled
      /\ \A j \in 1..Min(5, Len(newsItems)) :
           newsItems[j].titled =>
             \E h \in 1..Len(headlines) : headlines[h].pos = j
      /\ response.scored =>
           /\ Len(classified) = Len(headlines) /\ headlines # <<>>
           /\ \A j \in 1..Len(headlines) : response.news[j].title = headlines[j]
      /\ (sentimentPipe /\ sentRaised = "" /\ headlines = <<>>) =>
           response = NeutralResponse

\* C8 witness: the symbol's feed is empty and the proxy's has six titled
\* items, of which five are classified.
C8_Witness ==
    /\ sentPc = "done" /\ symNews = <<>> /\ proxyAsked
    /\ Len(newsItems) > 5 /\ newsItems[6].titled
    /\ Len(headlines) = 5 /\ response.scored

\* C9 as claimed: every call returns an overall label and never an error.
C9_AlwaysLabelled ==
    sentPc = "done" =>
      /\ response.error = ""
      /\ response.overall \in {"Positive", "Negative", "Neutral"}

\* C9 as amended: no exception leaves the handler; the returned object has
\* an overall label exactly when the classifier is loaded and no call
\* raised, and is an error object without a label otherwise.
C9_NoEscape ==
    /\ sentPc \in {"start", "done"}
    /\ sentPc = "done" =>
         /\ response.error = "" <=> (sentimentPipe /\ sentRaised = "")
         /\ response.error = "" =>
              response.overall \in {"Positive", "Negative", "Neutral"}
         /\ response.error # "" => response.overall = "" /\ ~response.scored

\* C9 witness: the classifier raises and the handler returns an error object.
C9_Witness ==
    /\ sentPc = "done" /\ sentRaised = "pipeline"
    /\ response.error = "pipeline" /\ headlines # <<>>

IsSentinel(resp) == resp.status = 200 /\ resp.custom_model = Sentinel

\* C10 as claimed, for a non-empty series and a model step that succeeds:
\* with both artifacts loaded, the sentinel is returned exactly when the
\* series has fewer than 60 bars, and 60 bars or more give UP or DOWN.
C10_SentinelBelow60 ==
    (/\ predPc = "done" /\ customModel /\ scaler
     /\ Len(df) > 0 /\ modelIn.outcome \in {"none", "prob"}) =>
      /\ IsSentinel(predResp) <=> Len(df) < 60
      /\ Len(df) >= 60 => predResp.custom_model.prediction \in {"UP", "DOWN"}

\* C10 as amended: with both artifacts loaded, an empty series gives the
\* 404 error, 1 to 60 bars give the sentinel, and 61 bars or more give UP
\* or DOWN unless no features come back or the model step raises, which
\* give the sentinel too.
C10_SentinelUpTo60 ==
    predPc = "done" /\ customModel /\ scaler =>
      /\ Len(df) = 0 => predResp.status = 404
      /\ (Len(df) >= 1 /\ Len(df) <= 60) => IsSentinel(predResp)
      /\ Len(df) >= 61 =>
           /\ predResp.status = 200
           /\ IF modelIn.outcome = "prob"
              THEN predResp.custom_model.prediction \in {"UP", "DOWN"}
              ELSE IsSentinel(predResp)

\* C10 witness: a series of exactly 60 bars gets the sentinel.
C10_Witness ==
    /\ predPc = "done" /\ customModel /\ scaler
    /\ Len(df) = 60 /\ IsSentinel(predResp)

\* C11: a model call with class-1 probability p is UP iff p > 0.5 and DOWN
\* otherwise; its confidence is p when UP and 1 - p when DOWN, so never
\* below 0.5.
C11_CallAndConfidence ==
    predPc = "done" /\ modelIn.outcome = "prob" =>
      LET p == modelIn.p
          c == predResp.custom_model
      IN  /\ c.prediction = "UP" <=> p > 50
          /\ c.prediction = "DOWN" <=> p <= 50
          /\ c.prediction = "UP" => c.confidence = p
          /\ c.prediction = "DOWN" => c.confidence = 100 - p
          /\ c.confidence >= 50

\* C11 witness: p = 0.5 is called DOWN with confidence 0.5.
C11_Witness ==
    /\ predPc = "done" /\ modelIn.outcome = "prob" /\ modelIn.p = 50
    /\ predResp.custom_model = [prediction |-> "DOWN", confidence |-> 50]

\* Sum of the last k closes.
TrailingSum(closes, k) == SumSeq(SubSeq(closes, Len(closes) - k + 1, Len(closes)))

\* C12 as claimed: for a series with 20 bars or more, the baseline is UP iff
\* the last close is above the average of the trailing 20 closes.
C12_BaselineVsSma20 ==
    predPc = "done" /\ Len(df) >= 20 =>
      (predResp.prediction = "UP" <=> 20 * df[Len(df)] > TrailingSum(df, 20))

\* C13 as claimed: without the artifacts the model result differs from every
\* model result returned with the artifacts loaded and a series too short.
C13_MissingArtifactReported ==
    (predPc = "done" /\ ~(customModel /\ scaler) /\ predResp.status = 200) =>
      predResp.custom_model \notin
        {CustomModel(TRUE, n, NotReached) : n \in 1..ModelMinBars}

\* C14: after the load at process start the model and the scaler are both
\* present or both absent, whichever files exist or fail to load, and a
\* model prediction is only computed when both are present.
C14_BothOrNeither ==
    /\ customModel <=> scaler
    /\ (loadedFrom.model # 0) <=> (loadedFrom.scaler # 0)
    /\ modelIn.outcome # "none" => customModel /\ scaler

\* C14 witness: the model file is there and the scaler file is not; after
\* the load neither is present and predict returns without a model call.
C14_Witness ==
    /\ predPc = "done" /\ predResp.status = 200 /\ Len(df) > ModelMinBars
    /\ store.model # 0 /\ store.scaler = 0
    /\ ~customModel /\ ~scaler /\ loadedFrom = NotLoaded
    /\ modelIn.outcome = "none"

\* C15 as claimed: a prediction is never computed with a model and a scaler
\* that come from different training runs.
C15_NoVersionSkew ==
    (predPc = "done" /\ modelIn.outcome = "prob") =>
      loadedFrom.model = loadedFrom.scaler

\* C16 as claimed: a failed training run leaves the three files as they were
\* when it started, and a run that did not fail has written all three.
C16_AllOrNothing ==
    /\ trainPc = "failed" => store = storeAtStart
    /\ trainPc = "done" => store = [model |-> runNo, scaler |-> runNo, meta |-> runNo]

\* C17 as claimed: get_stock_data never raises; a fetch failure, an empty
\* result or a result lacking a required column gives the empty series; and
\* no bar of a non-empty returned series has a null required field.
C17_EmptyOrComplete ==
    /\ fetchPc # "raised"
    /\ fetchPc = "returned" =>
         /\ (provided.raises \/ IsEmpty(provided.frame)
               \/ ~(required_cols \subseteq provided.frame.cols)) => fetched = EmptyFrame
         /\ ~IsEmpty(fetched) =>
              \A j \in 1..Len(fetched.rows) : fetched.rows[j] \cap required_cols = {}

\* C18 as claimed: the label of a training row is 1 iff the next bar closes
\* above the row's bar, and the final bar of the series is not in the table.
C18_LabelsNeedSuccessor ==
    prepPc = "prepared" =>
      \A i \in 1..Len(xy) :
        /\ xy[i].t < Len(hist.closes)
        /\ xy[i].y = 1 <=> hist.closes[xy[i].t + 1] > hist.closes[xy[i].t]

\* The sum of feature f over the first k rows of the feature table.
FeatureSum(f, k) == SumRange([i \in 1..Len(xy) |-> xy[i].x[f].v], 1, k)

\* C20: the split is chronological: the training rows followed by the
\* held-out rows are the feature table in series order, the training rows
\* are its first 80% (rounded down), and the scaler is fitted on the
\* training rows alone.
C20_ChronologicalSplit ==
    prepPc = "split" =>
      LET k == Len(xTrain) IN
      /\ xTrain \o xTest = xy
      /\ \A i \in 1..Len(xTrain), j \in 1..Len(xTest) : xTrain[i].t < xTest[j].t
      /\ 5 * k <= 4 * Len(xy) /\ 4 * Len(xy) < 5 * (k + 1)
      /\ scalerFit.n = k
      /\ \A f \in features : scalerFit.sum[f] = FeatureSum(f, k)

\* C20 witness: a table of nine rows is split seven to two, and the scaler
\* has not seen the held-out rows, whose RSI differs from 0.
C20_Witness ==
    /\ prepPc = "split"
    /\ Len(xy) = 9 /\ Len(xTrain) = 7 /\ Len(xTest) = 2
    /\ scalerFit.sum["RSI"] # FeatureSum("RSI", Len(xy))

\* The 14-bar sums of gains and of losses at the last bar (14 times the
\* average gain and the average loss).
LastGain == RollingSum(GainSeq(bars.closes), RsiWindow, Len(bars.closes))
LastLoss == RollingSum(LossSeq(bars.closes), RsiWindow, Len(bars.closes))

\* C19 as claimed: with a positive average loss RSI lies in [0, 100], and
\* with a zero average loss the RSI handed to the scaler is exactly 0.0.
C19_ZeroLossNeutralized ==
    featPc = "done" =>
      /\ LastLoss > 0 =>
           featRow.RSI.k = "num" /\ featRow.RSI.v >= 0 /\ featRow.RSI.v <= 10000
      /\ LastLoss = 0 => modelRow.RSI = Cell(0)

\* C19, amended: with a positive average loss RSI lies in [0, 100] and is
\* handed on unchanged; with a zero average loss and a positive average
\* gain RSI is 100.0 and is handed on as 100.0; only when both averages
\* are 0 is RSI undefined and the value handed to the scaler 0.0.
C19_RsiRange ==
    featPc = "done" =>
      /\ LastLoss > 0 =>
           /\ featRow.RSI.k = "num" /\ featRow.RSI.v >= 0 /\ featRow.RSI.v <= 10000
           /\ modelRow.RSI = featRow.RSI
      /\ (LastLoss = 0 /\ LastGain > 0) =>
           featRow.RSI = Cell(10000) /\ modelRow.RSI = Cell(10000)
      /\ (LastLoss = 0 /\ LastGain = 0) =>
           featRow.RSI = NaN /\ modelRow.RSI = Cell(0)

\* C19 witness: a window with gains and no loss; the scaler gets RSI 100.
C19_Witness ==
    /\ featPc = "done"
    /\ LastLoss = 0 /\ LastGain > 0
    /\ modelRow.RSI = Cell(10000)

\* C21: debt_to_equity is the raw debtToEquity divided by 100 when that raw
\* value is a non-zero number, and exactly 0.0 when it is absent, None or
\* zero; the only way the call can raise is float() of a text, never a
\* division.
C21_DebtToEquity ==
    LET raw == ratFin.info["debtToEquity"] IN
    /\ ratPc = "returned" =>
         /\ (~InfoMissing(ratFin) /\ raw.t = "num" /\ raw.v # 0) =>
              100 * ratRec.debt_to_equity = raw.v
         /\ (InfoMissing(ratFin) \/ raw.t \in {"absent", "none"} \/ raw = Num(0)) =>
              ratRec.debt_to_equity = 0
    /\ ratPc = "raised" => \E k \in InfoKeys : ratFin.info[k].t = "text"

\* C21 witness: a raw debtToEquity of -3.0 gives debt_to_equity -0.03.
C21_Witness ==
    /\ ratPc = "returned"
    /\ ratFin.info["debtToEquity"] = Num(0 - 300)
    /\ ratRec.debt_to_equity = 0 - 3

\* C22: the feature row prepare_data produces for bar t equals the last row
\* each calculate_features (api.py, huggingface_app.py) produces for the
\* series cut after bar t, and the three column lists are the same list.
C22_SameFeatures ==
    /\ train_columns = api_columns /\ train_columns = hf_columns
    /\ (prepPc = "prepared" /\ featPc = "done" /\ hfPc = "done") =>
         \A i \in 1..Len(xy) :
           xy[i].t = Len(bars.closes) => (xy[i].x = featRow /\ xy[i].x = hfRow)

\* C22 witness: a training row of a bar before the last one, with an RSI
\* strictly between 0 and 100, met by both inference rows.
C22_Witness ==
    /\ prepPc = "prepared" /\ featPc = "done" /\ hfPc = "done"
    /\ Len(bars.closes) < Len(hist.closes)
    /\ \E i \in 1..Len(xy) :
         /\ xy[i].t = Len(bars.closes)
         /\ xy[i].x.RSI.v > 0 /\ xy[i].x.RSI.v < 10000
         /\ xy[i].x.Dist_SMA_50.v # xy[i].x.Dist_SMA_20.v
         /\ featRow = xy[i].x /\ hfRow = xy[i].x

\* C23 as claimed: for every integer limit, zero and negative ones too, the
\* returned list has at most max(limit, 0) entries.
C23_AtMostLimit ==
    scanPc = "done" => Len(ret) <= Max(limit, 0)

====
